---- MODULE Spec2Model ----
(***************************************************************************)
(* A model of the rtoybox toolkit (src/src/lib.rs): the Toolkit object,    *)
(* its event drain and redraw pass (tick), add_tab and set_alpha.          *)
(*                                                                         *)
(* The graphics backend (SDL2) is the environment: it queues input events  *)
(* in the event pump, and it is the canvas the redraw pass draws on.  The  *)
(* canvas operations of one call are recorded, in order, in last.frame.    *)
(***************************************************************************)
EXTENDS Naturals, Sequences, FiniteSets, TLC

VARIABLES
    tabs,        \* Toolkit.tabs: Vec<Tab>
    tab_pos,     \* Toolkit.tab_pos: usize (0-based)
    items,       \* Toolkit.items: Vec<Box<dyn Drawable>>
    run,         \* Toolkit.run: bool
    bg_color,    \* Toolkit.bg_color: Color
    pump,        \* the events pending in Toolkit.pump (sdl2::EventPump)
    draw_color,  \* the draw color of Toolkit.canvas
    live,        \* the backend resources held: Toolkit.ctx, video, canvas (and its
                 \* window), pump, ttf, font, text_creator
    last         \* the last call: its name, arguments, pre-state, result, canvas operations

vars == <<tabs, tab_pos, items, run, bg_color, pump, draw_color, live, last>>

----------------------------------------------------------------------------
(* Bounds of the model. *)

MaxQueue == 3      \* events pending in the pump at once (Spec)
MaxAnyQueue == 1   \* events pending in the pump at once (SpecAny)
MaxTabs == 2       \* tabs in the tab list
MaxItems == 3      \* top-level drawables of an arbitrary Toolkit value
MaxButtons == 2    \* buttons of a tab of an arbitrary Toolkit value

SeqsUpTo(S, n) == UNION {[1..k -> S] : k \in 0..n}

\* Option<T>: None is the empty sequence, Some(v) the one-element sequence.
None == <<>>
Some(v) == <<v>>

----------------------------------------------------------------------------
(* Data. *)

\* sdl2::pixels::Color::RGBA
RGBA(r, g, b, a) == [r |-> r, g |-> g, b |-> b, a |-> a]

\* The alpha bytes (u8) the caller passes to set_alpha.
Alphas == {0, 100, 255}

\* The names the caller passes to add_tab.
TabNames == {"X", "Y"}

\* enum ToolkitError, by kind.
ToolkitErrorKinds ==
    {"SDLError", "TTFError", "IntOverflow", "AlreadyInitialized",
     "NotMultOfTwo", "InvalidText", "NoTabs"}

\* The errors a top-level drawable's draw() is made to return.
DrawErrors == {"SDLError", "NoTabs"}

\* Result<(), ToolkitError> of Drawable::draw: "Ok" or the error.
DrawResults == {"Ok"} \cup DrawErrors

\* sdl2::event::Event, as far as tick tells events apart: Quit, KeyDown with
\* its Option<Keycode>, and every other event.
Events ==
    {[type |-> "Quit"], [type |-> "MouseMotion"]}
    \cup {[type |-> "KeyDown", keycode |-> k] : k \in {Some("Escape"), Some("A"), None}}

\* struct Button: the name identifies it (position, size, texture are not
\* read by any operation modelled here).
Buttons == {[name |-> "B"]}

\* Tab::new making a tab that holds a button.
TabNew_WithButton(name) == [items |-> <<[name |-> "B"]>>, item_pos |-> 0, name |-> name]

\* Tab::new
TabNew(name) == [items |-> <<>>, item_pos |-> 0, name |-> name]

\* Values of struct Tab.
AnyTabs == [items : SeqsUpTo(Buttons, MaxButtons), item_pos : {0}, name : TabNames]

\* A top-level item is an opaque Box<dyn Drawable>.
Drawables == {"dyn"}

----------------------------------------------------------------------------
(* The error taxonomy. *)

\* Messages of the backend (String), u32 payloads, names of overflowing
\* values, pixel formats and I/O errors, as samples.
Messages == {"m1", "m2", "m3", "m4"}
U32s == {1, 2147483647}
ValueNames == {"w", "h"}
PixelFormats == {"IYUV", "YV12"}
IoErrors == {"NotFound", "PermissionDenied"}

\* The errors of the backend, by type: String, sdl2::video::WindowBuildError,
\* sdl2::IntegerOrSdlError, sdl2::ttf::InitError, sdl2::ttf::FontError,
\* sdl2::render::TextureValueError.
StringErrors == [type : {"String"}, msg : Messages]

WindowBuildErrors ==
    [type : {"WindowBuildError"}, variant : {"HeightOverflows", "WidthOverflows"}, value : U32s]
    \cup [type : {"WindowBuildError"}, variant : {"InvalidTitle"}]
    \cup [type : {"WindowBuildError"}, variant : {"SdlError"}, msg : Messages]

IntegerOrSdlErrors ==
    [type : {"IntegerOrSdlError"}, variant : {"IntegerOverflows"}, name : ValueNames, value : U32s]
    \cup [type : {"IntegerOrSdlError"}, variant : {"SdlError"}, msg : Messages]

InitErrors ==
    [type : {"InitError"}, variant : {"AlreadyInitializedError"}]
    \cup [type : {"InitError"}, variant : {"InitializationError"}, io : IoErrors]

FontErrors ==
    [type : {"FontError"}, variant : {"InvalidLatin1Text"}]
    \cup [type : {"FontError"}, variant : {"SdlError"}, msg : Messages]

TextureValueErrors ==
    [type : {"TextureValueError"}, variant : {"WidthOverflows", "HeightOverflows"}, value : U32s]
    \cup [type : {"TextureValueError"}, variant : {"WidthMustBeMultipleOfTwoForFormat"},
           value : U32s, format : PixelFormats]
    \cup [type : {"TextureValueError"}, variant : {"SdlError"}, msg : Messages]

BackendErrors ==
    StringErrors \cup WindowBuildErrors \cup IntegerOrSdlErrors \cup InitErrors
    \cup FontErrors \cup TextureValueErrors

\* e.to_string() of a WindowBuildError: the text of its Display, which is the
\* backend's; it is kept as the error it describes.
WindowBuildErrorToString(e) == [described |-> e]

\* Values of enum ToolkitError.
SDLError(s) == [kind |-> "SDLError", payload |-> s]
TTFError(io) == [kind |-> "TTFError", payload |-> io]
IntOverflow == [kind |-> "IntOverflow"]
AlreadyInitialized == [kind |-> "AlreadyInitialized"]
NotMultOfTwo == [kind |-> "NotMultOfTwo"]
InvalidText == [kind |-> "InvalidText"]
NoTabs == [kind |-> "NoTabs"]

ToolkitErrors ==
    {SDLError(m) : m \in Messages}
    \cup {TTFError(io) : io \in IoErrors}
    \cup {IntOverflow, AlreadyInitialized, NotMultOfTwo, InvalidText, NoTabs}

\* impl From<String> for ToolkitError
FromString(s) == SDLError(s.msg)

\* impl From<WindowBuildError> for ToolkitError
FromWindowBuildError(e) == SDLError(WindowBuildErrorToString(e))

\* impl From<IntegerOrSdlError> for ToolkitError
FromIntegerOrSdlError(e) ==
    CASE e.variant = "IntegerOverflows" -> IntOverflow
      [] e.variant = "SdlError" -> SDLError(e.msg)

\* impl From<InitError> for ToolkitError
FromInitError(e) ==
    CASE e.variant = "AlreadyInitializedError" -> AlreadyInitialized
      [] e.variant = "InitializationError" -> TTFError(e.io)

\* impl From<FontError> for ToolkitError
FromFontError(e) ==
    CASE e.variant = "InvalidLatin1Text" -> InvalidText
      [] e.variant = "SdlError" -> SDLError(e.msg)

\* From<TextureValueError> taking a height overflow for an odd width.
FromTextureValueError_HeightOdd(e) ==
    CASE e.variant = "WidthOverflows" -> IntOverflow
      [] e.variant = "HeightOverflows" -> NotMultOfTwo
      [] e.variant = "WidthMustBeMultipleOfTwoForFormat" -> NotMultOfTwo
      [] e.variant = "SdlError" -> SDLError(e.msg)

\* impl From<TextureValueError> for ToolkitError
FromTextureValueError(e) ==
    CASE e.variant = "WidthOverflows" -> IntOverflow
      [] e.variant = "HeightOverflows" -> IntOverflow
      [] e.variant = "WidthMustBeMultipleOfTwoForFormat" -> NotMultOfTwo
      [] e.variant = "SdlError" -> SDLError(e.msg)

\* The conversion the ? operator applies: the From impl of the error's type.
From(e) ==
    CASE e.type = "String" -> FromString(e)
      [] e.type = "WindowBuildError" -> FromWindowBuildError(e)
      [] e.type = "IntegerOrSdlError" -> FromIntegerOrSdlError(e)
      [] e.type = "InitError" -> FromInitError(e)
      [] e.type = "FontError" -> FromFontError(e)
      [] e.type = "TextureValueError" -> FromTextureValueError(e)

\* {0} / {} in a format string: the Display of the payload.
Shown(payload) == [display |-> payload]

\* #[derive(Error)] with #[error("...")]: the Display of a ToolkitError, as the
\* pieces of the formatted text.
Display(e) ==
    CASE e.kind = "SDLError" -> <<"SDL Error: ", Shown(e.payload)>>
      [] e.kind = "TTFError" -> <<"SDL_ttf input/output Error: ", Shown(e.payload)>>
      [] e.kind = "IntOverflow" -> <<"Integer overflow">>
      [] e.kind = "AlreadyInitialized" -> <<"TTF Context already initialized">>
      [] e.kind = "NotMultOfTwo" -> <<"Input value not a multiple of two">>
      [] e.kind = "InvalidText" -> <<"Invalid input text">>
      [] e.kind = "NoTabs" -> <<"No tabs have been created">>

\* impl From<ToolkitError> for String
IntoString(e) ==
    CASE e.kind = "SDLError" -> <<"SDL Error: ", Shown(e.payload)>>
      [] e.kind = "TTFError" -> <<"SDL_ttf input/output Error: ", Shown(e.payload)>>
      [] e.kind = "IntOverflow" -> <<"Integer overflow">>
      [] e.kind = "AlreadyInitialized" -> <<"TTF context already initialized">>
      [] e.kind = "NotMultOfTwo" -> <<"Input value not a multiple of two">>
      [] e.kind = "InvalidText" -> <<"Invalid input text">>
      [] e.kind = "NoTabs" -> <<"No tabs have been created">>

----------------------------------------------------------------------------
(* tick: the event drain. *)

\* HandleEvent without the Event::Quit arm.
HandleEvent_QuitIgnored(r, event) ==
    IF event.type = "KeyDown"
    THEN IF event.keycode = Some("Escape") THEN FALSE ELSE r
    ELSE r

\* HandleEvent stopping on every key press, whatever the key.
HandleEvent_AnyKeyStops(r, event) ==
    IF event.type = "Quit" THEN FALSE
    ELSE IF event.type = "KeyDown" THEN FALSE ELSE r

\* HandleEvent stopping in the catch-all arm too.
HandleEvent_DefaultStops(r, event) ==
    IF event.type = "Quit" THEN FALSE
    ELSE IF event.type = "KeyDown"
         THEN IF event.keycode = Some("Escape") THEN FALSE ELSE r
         ELSE FALSE

\* HandleEvent setting the run flag on a key press of another key.
HandleEvent_KeyResumes(r, event) ==
    IF event.type = "Quit" THEN FALSE
    ELSE IF event.type = "KeyDown"
         THEN IF event.keycode = Some("Escape") THEN FALSE ELSE TRUE
         ELSE r

\* The body of the for loop of tick: the run flag after one event.
HandleEvent(r, event) ==
    IF event.type = "Quit" THEN FALSE
    ELSE IF event.type = "KeyDown"
         THEN IF event.keycode = Some("Escape") THEN FALSE ELSE r
         ELSE r

\* PollIter handling the first pending event only.
PollIter_OnlyFirst(r, q) ==
    IF q = <<>> THEN [run |-> r, seen |-> <<>>]
    ELSE [run |-> HandleEvent(r, Head(q)),
          seen |-> <<[event |-> Head(q), run |-> HandleEvent(r, Head(q))]>>]

\* for event in self.pump.poll_iter(): the events q are taken from the front,
\* one by one, until none is left. The result is the run flag after the last
\* one, and the events handled, in order, each with the run flag it left.
RECURSIVE PollIter(_, _)
PollIter(r, q) ==
    IF q = <<>> THEN [run |-> r, seen |-> <<>>]
    ELSE LET r1 == HandleEvent(r, Head(q))
             rest == PollIter(r1, Tail(q))
         IN [run |-> rest.run, seen |-> <<[event |-> Head(q), run |-> r1]>> \o rest.seen]

----------------------------------------------------------------------------
(* redraw. *)

\* Drawable for Button: prints a trace line and returns Ok.
ButtonDraw(button) == "Ok"

\* Drawable for Tab: draws the buttons from index i on, stopping at the first failure.
RECURSIVE TabDrawFrom(_, _)
TabDrawFrom(btns, i) ==
    IF i > Len(btns) THEN [res |-> "Ok", log |-> <<>>]
    ELSE LET r == ButtonDraw(btns[i])
             op == [op |-> "draw_button", idx |-> i, name |-> btns[i].name, res |-> r]
         IN IF r # "Ok" THEN [res |-> r, log |-> <<op>>]
            ELSE LET rest == TabDrawFrom(btns, i + 1)
                 IN [res |-> rest.res, log |-> <<op>> \o rest.log]

TabDraw(tab) == TabDrawFrom(tab.items, 1)

\* DrawItemsFrom without the ?: every item is drawn, and the first error, if
\* any, is returned at the end.
RECURSIVE DrawItemsFrom_KeepGoing(_, _, _)
DrawItemsFrom_KeepGoing(its, outcome, i) ==
    IF i > Len(its) THEN [res |-> "Ok", log |-> <<>>]
    ELSE LET r == outcome[i]
             op == [op |-> "draw", idx |-> i, res |-> r]
             rest == DrawItemsFrom_KeepGoing(its, outcome, i + 1)
         IN [res |-> IF r # "Ok" THEN r ELSE rest.res, log |-> <<op>> \o rest.log]

\* for btn in &self.items { btn.draw()?; }: outcome[i] is what the draw() of
\* item i returns when called.
RECURSIVE DrawItemsFrom(_, _, _)
DrawItemsFrom(its, outcome, i) ==
    IF i > Len(its) THEN [res |-> "Ok", log |-> <<>>]
    ELSE LET r == outcome[i]
             op == [op |-> "draw", idx |-> i, res |-> r]
         IN IF r # "Ok" THEN [res |-> r, log |-> <<op>>]
            ELSE LET rest == DrawItemsFrom(its, outcome, i + 1)
                 IN [res |-> rest.res, log |-> <<op>> \o rest.log]

\* self.tabs.get(self.tab_pos), tab_pos being 0-based
TabsGet(tbs, pos) == IF pos + 1 <= Len(tbs) THEN Some(tbs[pos + 1]) ELSE None

\* DrawActiveTab failing with NoTabs when there is no tab at the index.
DrawActiveTab_NoTabs(tbs, pos) ==
    LET t == TabsGet(tbs, pos)
    IN IF t = None THEN [res |-> "NoTabs", log |-> <<>>]
       ELSE LET d == TabDraw(t[1])
            IN [res |-> d.res,
                log |-> <<[op |-> "draw_tab", idx |-> pos, name |-> t[1].name]>> \o d.log]

\* match self.tabs.get(self.tab_pos) { Some(tab) => tab.draw()?, None => () }
DrawActiveTab(tbs, pos) ==
    LET t == TabsGet(tbs, pos)
    IN IF t = None THEN [res |-> "Ok", log |-> <<>>]
       ELSE LET d == TabDraw(t[1])
            IN [res |-> d.res,
                log |-> <<[op |-> "draw_tab", idx |-> pos, name |-> t[1].name]>> \o d.log]

\* canvas.set_draw_color(color): the draw color of the canvas afterwards
SetDrawColor(dc, color) == color

\* Redraw drawing the active tab before the top-level items.
Redraw_TabFirst(its, tbs, pos, bg, dc, outcome) ==
    LET dc1 == SetDrawColor(dc, bg)
        clear == <<[op |-> "clear", color |-> dc1]>>
        top == DrawItemsFrom(its, outcome, 1)
        tab == DrawActiveTab(tbs, pos)
    IN IF tab.res # "Ok"
       THEN [res |-> tab.res, log |-> clear \o tab.log, draw_color |-> dc1]
       ELSE IF top.res # "Ok"
            THEN [res |-> top.res, log |-> clear \o tab.log \o top.log, draw_color |-> dc1]
            ELSE [res |-> "Ok",
                  log |-> clear \o tab.log \o top.log \o <<[op |-> "present"]>>,
                  draw_color |-> dc1]

\* Redraw without the active tab.
Redraw_SkipTab(its, tbs, pos, bg, dc, outcome) ==
    LET dc1 == SetDrawColor(dc, bg)
        clear == <<[op |-> "clear", color |-> dc1]>>
        top == DrawItemsFrom(its, outcome, 1)
    IN IF top.res # "Ok"
       THEN [res |-> top.res, log |-> clear \o top.log, draw_color |-> dc1]
       ELSE [res |-> "Ok", log |-> clear \o top.log \o <<[op |-> "present"]>>,
             draw_color |-> dc1]

\* Toolkit::redraw: the result, the canvas operations in order, and the draw
\* color the canvas is left with.
Redraw(its, tbs, pos, bg, dc, outcome) ==
    LET dc1 == SetDrawColor(dc, bg)
        clear == <<[op |-> "clear", color |-> dc1]>>
        top == DrawItemsFrom(its, outcome, 1)
        tab == DrawActiveTab(tbs, pos)
    IN IF top.res # "Ok"
       THEN [res |-> top.res, log |-> clear \o top.log, draw_color |-> dc1]
       ELSE IF tab.res # "Ok"
            THEN [res |-> tab.res, log |-> clear \o top.log \o tab.log, draw_color |-> dc1]
            ELSE [res |-> "Ok",
                  log |-> clear \o top.log \o tab.log \o <<[op |-> "present"]>>,
                  draw_color |-> dc1]

\* The redraw of tick, made only while the run flag r is set.
TickRedraw_OnlyRunning(r, its, tbs, pos, bg, dc, outcome) ==
    IF r THEN Redraw(its, tbs, pos, bg, dc, outcome)
    ELSE [res |-> "Ok", log |-> <<>>, draw_color |-> dc]

\* self.redraw()? in tick, r being the run flag after the drain: the redraw
\* does not depend on it.
TickRedraw(r, its, tbs, pos, bg, dc, outcome) ==
    Redraw(its, tbs, pos, bg, dc, outcome)

----------------------------------------------------------------------------
(* The state. *)

\* The fields every call records before it acts.
Snapshot ==
    [tabs |-> tabs, tab_pos |-> tab_pos, items |-> items, run |-> run,
     bg_color |-> bg_color, pump |-> pump, draw_color |-> draw_color]

\* Result<T, ToolkitError>
Ok(v) == [ok |-> TRUE, val |-> v]
Err(e) == [ok |-> FALSE, err |-> e]

\* AlphaColor with the alpha byte in the first place of RGBA.
AlphaColor_Swapped(alpha) == RGBA(alpha, 0, 0, 0)

\* Color::RGBA(0, 0, 0, alpha) in set_alpha
AlphaColor(alpha) == RGBA(0, 0, 0, alpha)

\* let bg_color = Color::RGBA(0, 0, 0, 100) in Toolkit::new
InitBgColor == RGBA(0, 0, 0, 100)

\* The backend resources of a Toolkit: its fields ctx, video, canvas, pump,
\* ttf, font, text_creator, and the window the canvas was made from.
Resources == {"ctx", "video", "window", "canvas", "pump", "ttf", "font", "text_creator"}

\* Toolkit::new, every backend step succeeding.
Init ==
    /\ tabs = <<>>
    /\ tab_pos = 0
    /\ items = <<>>
    /\ run = TRUE
    /\ bg_color = InitBgColor
    /\ pump = <<>>
    /\ draw_color = InitBgColor
    /\ live = Resources
    /\ last = [op |-> "new"]

\* Any value of struct Toolkit that runs: the tab at the active index may hold
\* buttons, the top-level item list may hold drawables, and the background
\* color may have been set.
InitAny ==
    /\ tabs \in SeqsUpTo(AnyTabs, 1)
    /\ tab_pos = 0
    /\ items \in SeqsUpTo(Drawables, MaxItems)
    /\ run = TRUE
    /\ bg_color \in {AlphaColor(a) : a \in Alphas}
    /\ pump = <<>>
    /\ draw_color = InitBgColor
    /\ live = Resources
    /\ last = [op |-> "new"]

----------------------------------------------------------------------------
(* The operations. *)

\* The backend queues an input event, the pump holding fewer than n.
PushEventUpTo(n) ==
    /\ Len(pump) < n
    /\ \E e \in Events : pump' = Append(pump, e)
    /\ last' = [op |-> "push"]
    /\ UNCHANGED <<tabs, tab_pos, items, run, bg_color, draw_color, live>>

PushEvent == PushEventUpTo(MaxQueue)

PushEventAny == PushEventUpTo(MaxAnyQueue)

\* RunAfterTick keeping the run flag of before the tick when the redraw fails.
RunAfterTick_OnlyOnOk(r0, r1, res) == IF res = "Ok" THEN r1 ELSE r0

\* self.run after tick, r0 being the flag before the call, r1 the flag after
\* the drain and res the result of the redraw: the loop has assigned it before
\* the redraw, and the early return of self.redraw()? does not touch it.
RunAfterTick(r0, r1, res) == r1

\* TickTrace with the redraw before the drain.
TickTrace_RedrawFirst(seen, frame) ==
    frame \o [i \in 1..Len(seen) |-> [op |-> "poll", event |-> seen[i].event]]

\* What tick does, in the order of its statements: it takes the events from
\* the pump, then it redraws.
TickTrace(seen, frame) ==
    [i \in 1..Len(seen) |-> [op |-> "poll", event |-> seen[i].event]] \o frame

\* Toolkit::tick
Tick ==
    \E outcome \in [1..Len(items) -> DrawResults] :
        LET p == PollIter(run, pump)
            r == p.run
            d == TickRedraw(r, items, tabs, tab_pos, bg_color, draw_color, outcome)
            r2 == RunAfterTick(run, r, d.res)
        IN /\ run' = r2
           /\ pump' = <<>>
           /\ draw_color' = d.draw_color
           /\ last' = [op |-> "tick", pre |-> Snapshot, seen |-> p.seen, frame |-> d.log,
                       trace |-> TickTrace(p.seen, d.log),
                       after_failed |-> (last.op = "tick" /\ ~last.ret.ok),
                       ret |-> IF d.res = "Ok" THEN Ok(r2) ELSE Err(d.res)]
           /\ UNCHANGED <<tabs, tab_pos, items, bg_color, live>>

\* PushTab inserting the new tab at the front.
PushTab_Front(tbs, name) == <<TabNew(name)>> \o tbs

\* PushTab leaving the list alone when it holds a tab of that name.
PushTab_Dedup(tbs, name) ==
    IF \E i \in 1..Len(tbs) : tbs[i].name = name THEN tbs ELSE Append(tbs, TabNew(name))

\* self.tabs.push(Tab::new(name))
PushTab(tbs, name) == Append(tbs, TabNew(name))

\* Toolkit::add_tab
AddTab ==
    /\ Len(tabs) < MaxTabs
    /\ \E name \in TabNames :
        /\ tabs' = PushTab(tabs, name)
        /\ last' = [op |-> "add_tab", name |-> name, pre |-> Snapshot, ret |-> Ok("unit")]
    /\ UNCHANGED <<tab_pos, items, run, bg_color, pump, draw_color, live>>

\* Toolkit::set_alpha
SetAlpha ==
    /\ \E alpha \in Alphas :
        /\ bg_color' = AlphaColor(alpha)
        /\ last' = [op |-> "set_alpha", alpha |-> alpha, pre |-> Snapshot]
    /\ UNCHANGED <<tabs, tab_pos, items, run, pump, draw_color, live>>

Next == PushEvent \/ Tick \/ AddTab \/ SetAlpha

\* The program: a Toolkit made by Toolkit::new.
Spec == Init /\ [][Next]_vars

\* tick on any Toolkit value: the event drain and the redraw pass as functions
\* of the fields, whatever the item list and the buttons of the active tab.
NextAny == PushEventAny \/ Tick

SpecAny == InitAny /\ [][NextAny]_vars

----------------------------------------------------------------------------
(* The life of a Toolkit: Toolkit::new step by step, and its drop. *)

\* The fallible calls of Toolkit::new in the order of its statements, each with
\* the resource it yields and the errors it can return.
NewSteps ==
    <<[call |-> "sdl2::init", gets |-> "ctx", errors |-> StringErrors],
      [call |-> "video", gets |-> "video", errors |-> StringErrors],
      [call |-> "window.build", gets |-> "window", errors |-> WindowBuildErrors],
      [call |-> "canvas.build", gets |-> "canvas", errors |-> IntegerOrSdlErrors],
      [call |-> "event_pump", gets |-> "pump", errors |-> StringErrors],
      [call |-> "ttf::init", gets |-> "ttf", errors |-> InitErrors],
      [call |-> "load_font", gets |-> "font", errors |-> StringErrors]>>

\* What the backend makes of one call of Toolkit::new: no failure, or the
\* first step that fails and its error.
NewFailures ==
    {None} \cup UNION {{Some([step |-> k, err |-> e]) : e \in NewSteps[k].errors} :
                        k \in 1..Len(NewSteps)}

Reverse(s) == [i \in 1..Len(s) |-> s[Len(s) + 1 - i]]

\* The fields of the Toolkit that Toolkit::new returns.
NewToolkit ==
    [tabs |-> <<>>, tab_pos |-> 0, items |-> <<>>, run |-> TRUE, bg_color |-> InitBgColor]

\* NewFrame without canvas.set_draw_color(bg_color).
NewFrame_NoColor == <<[op |-> "clear", color |-> RGBA(0, 0, 0, 0)], [op |-> "present"]>>

\* canvas.set_draw_color(bg_color); canvas.clear(); canvas.present(); in Toolkit::new
NewFrame == <<[op |-> "clear", color |-> SetDrawColor(RGBA(0, 0, 0, 0), InitBgColor)],
              [op |-> "present"]>>

\* NewRun going on to the next call when the event pump cannot be made.
NewRun_PumpUnchecked(fail) ==
    IF fail = None \/ fail[1].step = 5
    THEN [calls |-> [i \in 1..Len(NewSteps) |-> NewSteps[i].call] \o <<"texture_creator">>,
          frame |-> NewFrame,
          ret |-> Ok(NewToolkit),
          released |-> <<>>,
          live |-> Resources]
    ELSE LET k == fail[1].step
         IN [calls |-> [i \in 1..k |-> NewSteps[i].call],
             frame |-> <<>>,
             ret |-> Err(From(fail[1].err)),
             released |-> Reverse([i \in 1..(k - 1) |-> NewSteps[i].gets]),
             live |-> {}]

\* Toolkit::new: the calls made, in order, the canvas operations, the result,
\* and the resources released before returning and those still held. A step
\* that fails returns at once through ?, and the locals bound so far are
\* dropped in the reverse order of their declaration.
NewRun(fail) ==
    IF fail = None
    THEN [calls |-> [i \in 1..Len(NewSteps) |-> NewSteps[i].call] \o <<"texture_creator">>,
          frame |-> NewFrame,
          ret |-> Ok(NewToolkit),
          released |-> <<>>,
          live |-> Resources]
    ELSE LET k == fail[1].step
         IN [calls |-> [i \in 1..k |-> NewSteps[i].call],
             frame |-> <<>>,
             ret |-> Err(From(fail[1].err)),
             released |-> Reverse([i \in 1..(k - 1) |-> NewSteps[i].gets]),
             live |-> {}]

\* The fields of struct Toolkit that hold backend resources, in the order of
\* their declaration: the order in which a dropped Toolkit drops them.
FieldOrder == <<"ctx", "video", "canvas", "pump", "ttf", "font", "text_creator">>

\* What dropping a field releases: the canvas owns its window.
ReleasedBy(field) == IF field = "canvas" THEN <<"canvas", "window">> ELSE <<field>>

\* The resources released by dropping the fields fs from index i on, in order.
RECURSIVE DropFrom(_, _)
DropFrom(fs, i) ==
    IF i > Len(fs) THEN <<>> ELSE ReleasedBy(fs[i]) \o DropFrom(fs, i + 1)

\* No Toolkit exists: before Toolkit::new, after it failed, after the drop.
NoToolkit ==
    /\ tabs' = <<>>
    /\ tab_pos' = 0
    /\ items' = <<>>
    /\ run' = FALSE
    /\ bg_color' = RGBA(0, 0, 0, 0)
    /\ pump' = <<>>
    /\ draw_color' = RGBA(0, 0, 0, 0)
    /\ live' = {}

InitNone ==
    /\ tabs = <<>>
    /\ tab_pos = 0
    /\ items = <<>>
    /\ run = FALSE
    /\ bg_color = RGBA(0, 0, 0, 0)
    /\ pump = <<>>
    /\ draw_color = RGBA(0, 0, 0, 0)
    /\ live = {}
    /\ last = [op |-> "start"]

\* Toolkit::new
New ==
    /\ live = {}
    /\ \E fail \in NewFailures :
        LET n == NewRun(fail)
        IN /\ last' = [op |-> "new", failed |-> fail, calls |-> n.calls, frame |-> n.frame,
                       ret |-> n.ret, released |-> n.released]
           /\ IF n.ret.ok
              THEN /\ tabs' = n.ret.val.tabs
                   /\ tab_pos' = n.ret.val.tab_pos
                   /\ items' = n.ret.val.items
                   /\ run' = n.ret.val.run
                   /\ bg_color' = n.ret.val.bg_color
                   /\ pump' = <<>>
                   /\ draw_color' = n.frame[1].color
                   /\ live' = n.live
              ELSE NoToolkit

\* The owner drops the Toolkit.
DropToolkit ==
    /\ live # {}
    /\ last' = [op |-> "drop", released |-> DropFrom(FieldOrder, 1)]
    /\ NoToolkit

\* The operations on a Toolkit that exists.
Use == live # {} /\ Next

NextLife == New \/ DropToolkit \/ Use

\* The program from before Toolkit::new to the drop of the Toolkit.
SpecLife == InitNone /\ [][NextLife]_vars

----------------------------------------------------------------------------
(* The conversions of errors, applied to every error. *)

InitErr ==
    /\ tabs = <<>>
    /\ tab_pos = 0
    /\ items = <<>>
    /\ run = FALSE
    /\ bg_color = RGBA(0, 0, 0, 0)
    /\ pump = <<>>
    /\ draw_color = RGBA(0, 0, 0, 0)
    /\ live = {}
    /\ last \in {[op |-> "error", err |-> e] : e \in BackendErrors \cup ToolkitErrors}

\* ToolkitError::from(e) of a backend error e
ConvertError ==
    /\ last.op = "error"
    /\ last.err \in BackendErrors
    /\ last' = [op |-> "from", input |-> last.err, ret |-> From(last.err)]
    /\ UNCHANGED <<tabs, tab_pos, items, run, bg_color, pump, draw_color, live>>

\* String::from(e) and e.to_string() of a ToolkitError e
ErrorToString ==
    /\ \/ last.op = "from"
       \/ last.op = "error" /\ last.err \in ToolkitErrors
    /\ LET e == IF last.op = "from" THEN last.ret ELSE last.err
       IN last' = [op |-> "to_string", input |-> e, string |-> IntoString(e),
                   display |-> Display(e)]
    /\ UNCHANGED <<tabs, tab_pos, items, run, bg_color, pump, draw_color, live>>

NextErr == ConvertError \/ ErrorToString

SpecErr == InitErr /\ [][NextErr]_vars

----------------------------------------------------------------------------
(* Vocabulary of the properties. *)

IsQuit(e) == e.type = "Quit"

IsKeyDown(e) == e.type = "KeyDown"

IsEscape(e) == e.type = "KeyDown" /\ e.keycode = Some("Escape")

IsStop(e) == IsQuit(e) \/ IsEscape(e)

\* The events the last tick drained, in queue order.
Drained == last.pre.pump

\* The indices of the canvas operations named o in the frame f.
OpsAt(f, o) == {i \in 1..Len(f) : f[i].op = o}

TickDone == last.op = "tick"

----------------------------------------------------------------------------
(* C1..C5: the run state. *)

\* C1: when the queue a tick drains holds a quit event, at any position, the
\* run flag after the tick is false, and the tick, if it returns Ok, returns
\* false.
C1_QuitStops ==
    (TickDone /\ \E i \in 1..Len(Drained) : IsQuit(Drained[i]))
        => /\ run = FALSE
           /\ last.ret.ok => last.ret.val = FALSE

\* A running toolkit drained three events, the quit event in the middle of two
\* events that change nothing, and returned Ok(false).
C1_Witness ==
    /\ TickDone
    /\ last.pre.run = TRUE
    /\ Len(Drained) = 3
    /\ ~IsStop(Drained[1]) /\ IsQuit(Drained[2]) /\ ~IsStop(Drained[3])
    /\ run = FALSE
    /\ last.ret = Ok(FALSE)

\* C2: when the queue a tick drains holds a key press of Escape, at any
\* position, the run flag after the tick is false; a key press of any other
\* key, or of no key, leaves the run flag as it was just before that event was
\* handled.
C2_EscapeStops ==
    TickDone =>
        /\ (\E i \in 1..Len(Drained) : IsEscape(Drained[i])) => run = FALSE
        /\ Len(last.seen) = Len(Drained)
        /\ \A i \in 1..Len(Drained) :
            (IsKeyDown(Drained[i]) /\ ~IsEscape(Drained[i]))
                => /\ last.seen[i].event = Drained[i]
                   /\ last.seen[i].run = IF i = 1 THEN last.pre.run ELSE last.seen[i - 1].run

\* A running toolkit drained a key press of another key, a key press of
\* Escape and a key press of no key: the first left it running, the second
\* stopped it.
C2_Witness ==
    /\ TickDone
    /\ last.pre.run = TRUE
    /\ Len(Drained) = 3
    /\ Drained[1] = [type |-> "KeyDown", keycode |-> Some("A")]
    /\ IsEscape(Drained[2])
    /\ Drained[3] = [type |-> "KeyDown", keycode |-> None]
    /\ last.seen[1].run = TRUE
    /\ run = FALSE

\* C3, as claimed: in every reachable state, a tick that drains no quit event
\* and no Escape key press returns true.
C3_AsClaimed ==
    (TickDone /\ \A i \in 1..Len(Drained) : ~IsStop(Drained[i]))
        => last.ret = Ok(TRUE)

\* C3, amended: in every reachable state whose run flag is true, a tick that
\* drains no quit event and no Escape key press returns true.
C3_BenignKeepsRunning ==
    (TickDone /\ last.pre.run = TRUE /\ \A i \in 1..Len(Drained) : ~IsStop(Drained[i]))
        => /\ last.ret = Ok(TRUE)
           /\ run = TRUE

\* A running toolkit with a tab drained three events, none a quit or an
\* Escape key press, and returned Ok(true).
C3_Witness ==
    /\ TickDone
    /\ last.pre.run = TRUE
    /\ Len(Drained) = 3
    /\ \A i \in 1..3 : ~IsStop(Drained[i])
    /\ \E i \in 1..3 : IsKeyDown(Drained[i])
    /\ tabs # <<>>
    /\ last.ret = Ok(TRUE)

\* C4: the run flag is true at first; once it is false, no step makes it true
\* again, and every tick from then on that returns Ok returns false.
C4_StoppedIsTerminal ==
    /\ run = TRUE
    /\ [][(run = FALSE)
            => /\ run' = FALSE
               /\ (last'.op = "tick" /\ last'.ret.ok) => last'.ret.val = FALSE]_vars

\* A stopped toolkit ticked again, draining events that are no stop request,
\* and returned Ok(false).
C4_Witness ==
    /\ TickDone
    /\ last.pre.run = FALSE
    /\ Drained # <<>>
    /\ \A i \in 1..Len(Drained) : ~IsStop(Drained[i])
    /\ last.ret = Ok(FALSE)

\* C5: every tick makes exactly one redraw pass, whatever the run flag before
\* and after: the canvas is cleared exactly once, first, and it is presented
\* once, last, when every draw succeeded, and not at all otherwise.
C5_OneRedrawPerTick ==
    TickDone =>
        /\ OpsAt(last.frame, "clear") = {1}
        /\ OpsAt(last.frame, "present") = IF last.ret.ok THEN {Len(last.frame)} ELSE {}

\* A tick of a toolkit that was already stopped cleared and presented the
\* frame.
C5_Witness ==
    /\ TickDone
    /\ last.pre.run = FALSE
    /\ run = FALSE
    /\ last.ret = Ok(FALSE)
    /\ OpsAt(last.frame, "clear") = {1}
    /\ OpsAt(last.frame, "present") = {Len(last.frame)}

----------------------------------------------------------------------------
(* C6..C7: the redraw pass. *)

\* The places in the frame f of the top-level draws that failed.
FailedDraws(f) == {i \in OpsAt(f, "draw") : f[i].res # "Ok"}

\* C6: when the draw of the top-level drawable at index n fails in a redraw
\* pass, the pass has drawn the drawables before n once each, in list order,
\* draws nothing after n (no later drawable, no tab, no present), and the tick
\* returns the error of that draw.
C6_AbortOnFirstFailure ==
    TickDone =>
        \A i \in FailedDraws(last.frame) :
            LET n == last.frame[i].idx
            IN /\ Len(last.frame) = n + 1
               /\ i = n + 1
               /\ last.frame[1].op = "clear"
               /\ \A k \in 1..(n - 1) : last.frame[k + 1] = [op |-> "draw", idx |-> k, res |-> "Ok"]
               /\ last.ret = Err(last.frame[i].res)

\* Of three top-level drawables and a tab, the first was drawn, the second
\* failed with NoTabs, the third and the tab were not drawn, and the tick
\* returned that error.
C6_Witness ==
    /\ TickDone
    /\ Len(last.pre.items) = 3
    /\ last.pre.tabs # <<>>
    /\ last.frame = <<[op |-> "clear", color |-> last.pre.bg_color],
                      [op |-> "draw", idx |-> 1, res |-> "Ok"],
                      [op |-> "draw", idx |-> 2, res |-> "NoTabs"]>>
    /\ last.ret = Err("NoTabs")

\* C7: a redraw pass of a toolkit with no top-level item and no tab clears the
\* canvas, presents it and succeeds; and when there is no tab at the active
\* index, no tab is drawn and the pass fails only with the error of a
\* top-level draw that failed.
C7_NoTabIsNoError ==
    TickDone =>
        /\ (last.pre.items = <<>> /\ last.pre.tabs = <<>>)
            => /\ last.frame = <<[op |-> "clear", color |-> last.pre.bg_color],
                                 [op |-> "present"]>>
               /\ last.ret.ok
        /\ Len(last.pre.tabs) <= last.pre.tab_pos
            => /\ OpsAt(last.frame, "draw_tab") = {}
               /\ ~last.ret.ok
                    => \E i \in FailedDraws(last.frame) : last.ret.err = last.frame[i].res

\* A toolkit with no item and no tab ticked: clear, present, Ok.
C7_Witness ==
    /\ TickDone
    /\ last.pre.items = <<>>
    /\ last.pre.tabs = <<>>
    /\ last.frame = <<[op |-> "clear", color |-> last.pre.bg_color], [op |-> "present"]>>
    /\ last.ret.ok

----------------------------------------------------------------------------
(* C8..C10: set_alpha and add_tab. *)

\* C8: the background color is RGBA(0,0,0,100) at first; set_alpha(a) makes it
\* RGBA(0,0,0,a) whatever it was, and changes no other field; no other
\* operation changes it; and every redraw clears the canvas with it.
C8_AlphaOfLastSetAlpha ==
    /\ bg_color = RGBA(0, 0, 0, 100)
    /\ [][/\ last'.op = "set_alpha"
                => /\ bg_color' = RGBA(0, 0, 0, last'.alpha)
                   /\ UNCHANGED <<tabs, tab_pos, items, run, pump, draw_color>>
          /\ last'.op # "set_alpha" => bg_color' = bg_color
          /\ last'.op = "tick"
                => last'.frame[1] = [op |-> "clear", color |-> bg_color]]_vars

\* After set_alpha(255), the color being another one at the redraw before, a
\* tick cleared the canvas with RGBA(0,0,0,255).
C8_Witness ==
    /\ TickDone
    /\ last.pre.bg_color = RGBA(0, 0, 0, 255)
    /\ last.pre.draw_color = RGBA(0, 0, 0, 0)
    /\ last.frame[1] = [op |-> "clear", color |-> RGBA(0, 0, 0, 255)]

\* s is t, or t with more at its end.
IsPrefix(t, s) == Len(t) <= Len(s) /\ \A i \in 1..Len(t) : s[i] = t[i]

\* C9: the active tab index is 0 throughout; the tab list only grows at its
\* end, add_tab(name) appending a tab of that name; and a redraw draws exactly
\* one tab, the first of the list, when the list is not empty, and none when
\* it is.
C9_FirstTabStaysActive ==
    /\ tab_pos = 0 /\ tabs = <<>>
    /\ [][/\ tab_pos' = 0
          /\ IsPrefix(tabs, tabs')
          /\ last'.op = "add_tab"
                => /\ Len(tabs') = Len(tabs) + 1
                   /\ tabs'[Len(tabs')].name = last'.name
          /\ last'.op # "add_tab" => tabs' = tabs
          /\ last'.op = "tick"
                => LET f == last'.frame
                   IN IF tabs = <<>> THEN OpsAt(f, "draw_tab") = {}
                      ELSE \E i \in 1..Len(f) :
                            /\ OpsAt(f, "draw_tab") = {i}
                            /\ f[i].idx = 0
                            /\ f[i].name = tabs[1].name]_vars

\* After add_tab("X"), add_tab("Y") the tab list is X, Y, and a tick drew X.
C9_Witness ==
    /\ TickDone
    /\ Len(tabs) = 2
    /\ tabs[1].name = "X" /\ tabs[2].name = "Y"
    /\ \E i \in OpsAt(last.frame, "draw_tab") : last.frame[i].name = "X"

\* C10: add_tab(name) returns Ok; the tab list afterwards is the list before
\* with one tab appended, which has that name, no button and cursor 0, also
\* when a tab of that name exists; the active tab index, the top-level items,
\* the background color and the run flag are as before.
C10_AddTabAppends ==
    last.op = "add_tab" =>
        /\ last.ret.ok
        /\ Len(tabs) = Len(last.pre.tabs) + 1
        /\ SubSeq(tabs, 1, Len(tabs) - 1) = last.pre.tabs
        /\ tabs[Len(tabs)] = [items |-> <<>>, item_pos |-> 0, name |-> last.name]
        /\ tab_pos = last.pre.tab_pos
        /\ items = last.pre.items
        /\ bg_color = last.pre.bg_color
        /\ run = last.pre.run

\* add_tab("X") on a stopped toolkit that already had a tab named X.
C10_Witness ==
    /\ last.op = "add_tab"
    /\ last.name = "X"
    /\ Len(last.pre.tabs) = 1
    /\ last.pre.tabs[1].name = "X"
    /\ Len(tabs) = 2
    /\ tabs[2].name = "X"
    /\ run = FALSE

----------------------------------------------------------------------------
(* C11, C15: the error taxonomy. *)

\* C11: the conversion of a backend error gives the toolkit error of the
\* table: a raw message and a window-build failure give SDLError with the
\* message; integer-or-backend overflow gives IntOverflow, its backend case
\* SDLError; font-subsystem already initialized gives AlreadyInitialized, its
\* I/O fault TTFError; font-render invalid text gives InvalidText, otherwise
\* SDLError; texture width and height overflow give IntOverflow, width not a
\* multiple of two NotMultOfTwo, otherwise SDLError; and never NoTabs.
C11_ConversionTable ==
    last.op = "from" =>
        LET e == last.input
            t == last.ret
        IN /\ t.kind \in ToolkitErrorKinds \ {"NoTabs"}
           /\ e.type = "String" => t = [kind |-> "SDLError", payload |-> e.msg]
           /\ e.type = "WindowBuildError"
                => t = [kind |-> "SDLError", payload |-> [described |-> e]]
           /\ e.type = "IntegerOrSdlError"
                => IF e.variant = "IntegerOverflows" THEN t = [kind |-> "IntOverflow"]
                   ELSE t = [kind |-> "SDLError", payload |-> e.msg]
           /\ e.type = "InitError"
                => IF e.variant = "AlreadyInitializedError"
                   THEN t = [kind |-> "AlreadyInitialized"]
                   ELSE t = [kind |-> "TTFError", payload |-> e.io]
           /\ e.type = "FontError"
                => IF e.variant = "InvalidLatin1Text" THEN t = [kind |-> "InvalidText"]
                   ELSE t = [kind |-> "SDLError", payload |-> e.msg]
           /\ e.type = "TextureValueError"
                => IF e.variant \in {"WidthOverflows", "HeightOverflows"}
                   THEN t = [kind |-> "IntOverflow"]
                   ELSE IF e.variant = "WidthMustBeMultipleOfTwoForFormat"
                        THEN t = [kind |-> "NotMultOfTwo"]
                        ELSE t = [kind |-> "SDLError", payload |-> e.msg]

\* A texture height overflow was converted to IntOverflow.
C11_Witness ==
    /\ last.op = "from"
    /\ last.input.type = "TextureValueError"
    /\ last.input.variant = "HeightOverflows"
    /\ last.ret = [kind |-> "IntOverflow"]

\* C15: for every ToolkitError, of every kind and payload, the conversion to
\* a String and the Display formatting give the same text.
C15_StringEqualsDisplay ==
    last.op = "to_string" => last.string = last.display

----------------------------------------------------------------------------
(* C12..C14: the life of a Toolkit. *)

\* C12: when every backend step of Toolkit::new succeeds, the Toolkit has no
\* tab, no top-level item, active tab index 0, run flag true and background
\* color RGBA(0,0,0,100), and the canvas has been cleared to that color and
\* presented, once each, before any tick.
C12_NewToolkit ==
    (last.op = "new" /\ last.failed = None) =>
        /\ last.ret.ok
        /\ tabs = <<>> /\ items = <<>> /\ tab_pos = 0 /\ run = TRUE
        /\ bg_color = RGBA(0, 0, 0, 100)
        /\ last.frame = <<[op |-> "clear", color |-> RGBA(0, 0, 0, 100)], [op |-> "present"]>>

\* Toolkit::new succeeded: the Toolkit runs and holds every backend resource.
C12_Witness ==
    /\ last.op = "new"
    /\ last.failed = None
    /\ last.ret.ok
    /\ live = Resources
    /\ run = TRUE

\* The fallible steps of initialize in the order the claim gives them.
ClaimedSteps ==
    <<"sdl2::init", "video", "window.build", "canvas.build", "event_pump", "ttf::init",
      "load_font">>

\* What each step yields.
ClaimedGets == <<"ctx", "video", "window", "canvas", "pump", "ttf", "font">>

\* C13: when step k of Toolkit::new fails, the calls made are the first k
\* steps, in the order backend context, video subsystem, window, canvas, event
\* source, font subsystem, font load; the canvas is neither cleared nor
\* presented; the result is the error of step k, converted; no Toolkit is
\* returned; and each resource of the steps before k has been released once.
C13_NewAllOrNothing ==
    (last.op = "new" /\ last.failed # None) =>
        LET k == last.failed[1].step
            e == last.failed[1].err
        IN /\ last.calls = SubSeq(ClaimedSteps, 1, k)
           /\ last.frame = <<>>
           /\ ~last.ret.ok
           /\ last.ret.err.kind \in ToolkitErrorKinds
           /\ e.type = "String" => last.ret.err = [kind |-> "SDLError", payload |-> e.msg]
           /\ e.type = "WindowBuildError" => last.ret.err.kind = "SDLError"
           /\ e.type = "IntegerOrSdlError"
                => last.ret.err.kind = IF e.variant = "IntegerOverflows" THEN "IntOverflow"
                                       ELSE "SDLError"
           /\ e.type = "InitError"
                => last.ret.err.kind = IF e.variant = "AlreadyInitializedError"
                                       THEN "AlreadyInitialized" ELSE "TTFError"
           /\ live = {}
           /\ Len(last.released) = k - 1
           /\ {last.released[i] : i \in 1..Len(last.released)}
                = {ClaimedGets[i] : i \in 1..(k - 1)}

\* The font subsystem could not start: six calls were made, nothing was drawn,
\* the error is AlreadyInitialized and the five resources are released.
C13_Witness ==
    /\ last.op = "new"
    /\ last.failed = Some([step |-> 6,
                           err |-> [type |-> "InitError", variant |-> "AlreadyInitializedError"]])
    /\ Len(last.calls) = 6
    /\ last.ret = Err([kind |-> "AlreadyInitialized"])
    /\ Len(last.released) = 5
    /\ live = {}

\* The dependencies among the backend resources: each pair is a resource and
\* the resource it depends on.
DependsOn ==
    {<<"text_creator", "canvas">>, <<"font", "ttf">>, <<"canvas", "video">>,
     <<"window", "video">>, <<"video", "ctx">>}

\* The place of the resource r in the sequence of releases s.
ReleasedAt(s, r) == CHOOSE i \in 1..Len(s) : s[i] = r

\* C14: when a Toolkit is dropped, every resource is released before the
\* resource it depends on: the texture factory before the canvas, the font
\* before the font subsystem, the canvas and the window before the video
\* subsystem, the video subsystem before the backend context.
C14_ReverseDependencyDrop ==
    last.op = "drop" =>
        \A d \in DependsOn :
            ReleasedAt(last.released, d[1]) < ReleasedAt(last.released, d[2])

----------------------------------------------------------------------------
(* C16..C20: the behaviour of tick. *)

\* C16: a tick can be made in every state, also with no event pending; it
\* handles the events that were pending, each once, in queue order, before
\* anything else; it leaves the queue empty; and it goes on to clear the
\* canvas and returns.
C16_DrainTerminates ==
    /\ ENABLED Tick
    /\ TickDone =>
        /\ pump = <<>>
        /\ Len(last.seen) = Len(Drained)
        /\ \A i \in 1..Len(Drained) :
            /\ last.seen[i].event = Drained[i]
            /\ last.trace[i] = [op |-> "poll", event |-> Drained[i]]
        /\ OpsAt(last.trace, "poll") = 1..Len(Drained)
        /\ Len(last.trace) > Len(Drained)
        /\ last.trace[Len(Drained) + 1].op = "clear"
        /\ last.ret.ok \/ last.ret.err \in DrawErrors

\* A tick drained three events, the first two alike, handled each once in
\* order, redrew and returned.
C16_Witness ==
    /\ TickDone
    /\ Len(Drained) = 3
    /\ Drained[1] = Drained[2]
    /\ Drained[2] # Drained[3]
    /\ Len(last.seen) = 3
    /\ pump = <<>>
    /\ last.ret.ok

\* The tab at the active index of the fields p, if there is one.
ActiveTab(p) == IF Len(p.tabs) <= p.tab_pos THEN <<>> ELSE <<p.tabs[p.tab_pos + 1]>>

\* The canvas operations of a redraw pass of the fields p in which every draw
\* succeeds: clear with the background color, the top-level drawables in list
\* order, the active tab and its buttons in order, present.
FullFrame(p) ==
    <<[op |-> "clear", color |-> p.bg_color]>>
    \o [i \in 1..Len(p.items) |-> [op |-> "draw", idx |-> i, res |-> "Ok"]]
    \o (IF ActiveTab(p) = <<>> THEN <<>>
        ELSE LET tab == ActiveTab(p)[1]
             IN <<[op |-> "draw_tab", idx |-> p.tab_pos, name |-> tab.name]>>
                \o [j \in 1..Len(tab.items) |->
                        [op |-> "draw_button", idx |-> j, name |-> tab.items[j].name,
                         res |-> "Ok"]])
    \o <<[op |-> "present"]>>

\* The steps of a tick of the fields p in which every draw succeeds.
FullTrace(p) == [i \in 1..Len(p.pump) |-> [op |-> "poll", event |-> p.pump[i]]] \o FullFrame(p)

\* C17: the steps of a tick are, in this order: the drain of every pending
\* event, the clear with the background color, the top-level drawables in list
\* order, the active tab and its buttons in order, present; the steps stop at
\* the first draw that fails, whose error the tick returns; and present is
\* made exactly when no draw failed, once, as the last step.
C17_TickOrder ==
    TickDone =>
        LET t == last.trace
            x == FullTrace(last.pre)
            n == Len(t)
        IN \/ /\ last.ret.ok
              /\ t = x
           \/ /\ ~last.ret.ok
              /\ n < Len(x)
              /\ \A i \in 1..(n - 1) : t[i] = x[i]
              /\ t[n].op \in {"draw", "draw_button"}
              /\ t[n].op = x[n].op /\ t[n].idx = x[n].idx
              /\ t[n].res # "Ok"
              /\ last.ret.err = t[n].res

\* A tick drained an event, cleared, drew three top-level drawables, the tab
\* and its two buttons, and presented.
C17_Witness ==
    /\ TickDone
    /\ Len(Drained) = 1
    /\ Len(last.pre.items) = 3
    /\ Len(last.pre.tabs) = 1
    /\ Len(last.pre.tabs[1].items) = 2
    /\ Len(last.trace) = 9
    /\ last.trace[9].op = "present"
    /\ last.ret.ok

\* The places in the frame f of the draws, of items and of buttons, that failed.
FailedOps(f) == {i \in 1..Len(f) : f[i].op \in {"draw", "draw_button"} /\ f[i].res # "Ok"}

\* C18: a tick whose redraw fails leaves the tab list, the top-level items,
\* the active tab index and the background color as they were; and a tick in
\* which no draw fails, the tick after a failed one included, clears the
\* canvas, draws every top-level drawable and the active tab, presents and
\* returns Ok.
C18_FailedFrameHeals ==
    TickDone =>
        /\ ~last.ret.ok
            => /\ tabs = last.pre.tabs
               /\ items = last.pre.items
               /\ tab_pos = last.pre.tab_pos
               /\ bg_color = last.pre.bg_color
        /\ FailedOps(last.frame) = {}
            => /\ last.frame = FullFrame(last.pre)
               /\ last.ret.ok

\* The tick after a tick whose redraw failed drew the items and the tab,
\* presented and returned Ok.
C18_Witness ==
    /\ TickDone
    /\ last.after_failed
    /\ Len(last.pre.items) >= 2
    /\ last.pre.tabs # <<>>
    /\ last.frame = FullFrame(last.pre)
    /\ last.ret.ok

\* C19: a tick that drains a quit event or an Escape key press and whose
\* redraw fails returns the error, and leaves the queue empty and the run flag
\* false; and from a state whose run flag is false every tick that returns Ok
\* returns false, whatever its queue.
C19_StopSurvivesFailure ==
    /\ [](TickDone /\ ~last.ret.ok /\ (\E i \in 1..Len(Drained) : IsStop(Drained[i]))
            => /\ last.ret.err \in DrawErrors
               /\ pump = <<>>
               /\ run = FALSE)
    /\ [][(run = FALSE /\ last'.op = "tick")
            => /\ run' = FALSE
               /\ last'.ret.ok => last'.ret.val = FALSE]_vars

\* A running toolkit drained a stop request in a tick whose redraw failed:
\* the tick returned the error and the toolkit is stopped.
C19_Witness ==
    /\ TickDone
    /\ last.pre.run = TRUE
    /\ Len(Drained) = 1
    /\ IsStop(Drained[1])
    /\ ~last.ret.ok
    /\ run = FALSE
    /\ pump = <<>>

\* C20: the top-level item list is empty, no tab holds a button and every
\* tab's cursor is 0; and every tick returns Ok and presents the canvas.
C20_NothingToDraw ==
    /\ items = <<>>
    /\ \A i \in 1..Len(tabs) : tabs[i].items = <<>> /\ tabs[i].item_pos = 0
    /\ TickDone
        => /\ last.ret.ok
           /\ OpsAt(last.frame, "present") = {Len(last.frame)}
           /\ OpsAt(last.frame, "draw") = {}
           /\ OpsAt(last.frame, "draw_button") = {}

\* A toolkit with two tabs ticked: the first tab was drawn, with no button,
\* and the canvas presented.
C20_Witness ==
    /\ TickDone
    /\ Len(tabs) = 2
    /\ OpsAt(last.frame, "draw_tab") = {2}
    /\ Len(last.frame) = 3
    /\ last.ret.ok

====
